---- MODULE Spec2Model ----
(***************************************************************************)
(* JNI glue of android-vad around the WebRTC voice activity detector.      *)
(*                                                                         *)
(* Two builds of the glue exist, with the same four JNI entry points:      *)
(*   "singleton"  src/vad/src/main/jni/vad_jni.c                            *)
(*                the context lives in the global internalHandle;          *)
(*   "handle"     src/vad/src/main/jni/webrtc_vad/vad_jni.c                 *)
(*                nativeInit returns the context's address as a jlong and  *)
(*                the caller passes it back on every call.                 *)
(* The build is chosen in Init.  Calls are serialized: one action is one   *)
(* whole JNI call, every native call it makes included.                    *)
(*                                                                         *)
(* The WebRTC library itself (WebRtcVad_Create, _Init, _Free, _set_mode,   *)
(* _Process) is not part of the glue; it is modelled by its contract, with *)
(* its results chosen nondeterministically where the glue cannot know them *)
(* (allocation failure, initialization failure, the classification), and   *)
(* with every use of a freed or fabricated pointer an undefined behaviour  *)
(* whose outcomes (any return value, or a crash) are all explored.         *)
(***************************************************************************)
EXTENDS Integers, Sequences, FiniteSets, TLC

\* ---------------------------------------------------------------- bounds
MaxAddr == 2     \* addresses the allocator can hand out

\* ------------------------------------------------------- program constants
NULL      == 0
JNI_TRUE  == 1
JNI_FALSE == 0
InitError == -1    \* nativeInit's failure value in the handle build

Addr     == 1..MaxAddr
Variants == {"singleton", "handle"}

\* Inputs the caller can pass.
HandleInputs == Addr \cup {NULL, InitError}
ModeInputs   == {-1, 0, 3, 4}
\* Classify arguments <<jSampleRate, jFrameSize, length of the array>>: a
\* supported pair with a matching frame (at two rates), a frame shorter and a
\* frame longer than jFrameSize, an unsupported length and an unsupported
\* rate.  jFrameSize is never negative here, so the cast to size_t keeps it.
ClassifyInputs ==
    {<<8000, 80, 80>>, <<16000, 160, 160>>, <<8000, 160, 80>>, <<8000, 80, 160>>,
     <<16000, 80, 80>>, <<44100, 80, 80>>}

VARIABLES
    variant,         \* which build of the glue is running
    heap,            \* the native heap: address -> context
    internalHandle,  \* the singleton build's global
    outstanding,     \* contexts WebRtcVad_Create has allocated minus contexts WebRtcVad_Free has released
    crashed,         \* the process died in an undefined behaviour
    ready,           \* handles whose Engine instance is Ready (create succeeded, not destroyed)
    destroyed,       \* caller-held handles (handle build) destroy has been applied to while Ready
    last,            \* the last JNI call: its arguments, its result, the native calls it made
    race             \* unsynchronized threads inside the singleton build's calls (SpecRace)

vars == <<variant, heap, internalHandle, outstanding, crashed, ready, destroyed, last, race>>

\* The threads that call into the singleton build without synchronization.
Threads == {1, 2}

\* No thread is inside a call.
RaceIdle ==
    [pc |-> [t \in Threads |-> "idle"], tmp |-> [t \in Threads |-> NULL],
     overlapped |-> FALSE, seen |-> {}]

\* ------------------------------------------------------------ native heap
\* A freed (or never allocated) chunk; its content is indeterminate and is
\* never read by a defined execution, so it has one representation.
Dead == [live |-> FALSE, init |-> FALSE, mode |-> 0, adapted |-> FALSE]

\* What WebRtcVad_Create hands out: init_flag = 0.
Fresh == [live |-> TRUE, init |-> FALSE, mode |-> 0, adapted |-> FALSE]

Live(h) == {a \in Addr : h[a].live}

\* What a pointer value refers to at the time of a native call.
Status(h, p) ==
    IF p = NULL THEN "null"
    ELSE IF p \notin Addr THEN "wild"
    ELSE IF h[p].live THEN "live" ELSE "dead"

\* One native call, as logged: function, pointer argument, what the pointer
\* referred to, and the value returned.
Call(fn, arg, st, res) == [fn |-> fn, arg |-> arg, st |-> st, res |-> res]

\* The native side at the entry of a JNI call.
Machine ==
    [heap |-> heap, outstanding |-> outstanding, calls |-> <<>>,
     peak |-> Cardinality(Live(heap)), crashed |-> FALSE]

Max(a, b) == IF a >= b THEN a ELSE b

Logged(m, c) == [m EXCEPT !.calls = Append(@, c)]

Crash(m, c) == [Logged(m, c) EXCEPT !.crashed = TRUE]

Skip(m) == {[m |-> m, ret |-> 0]}

\* VadInst* WebRtcVad_Create(): NULL, or a fresh uninitialized context at an
\* address that is not live (a freed address can be handed out again).
WebRtcVad_Create(m) ==
    IF m.crashed THEN Skip(m) ELSE
    {[m |-> Logged(m, Call("Create", NULL, "none", NULL)), ret |-> NULL]}
    \cup
    {[m |-> [Logged(m, Call("Create", NULL, "none", a)) EXCEPT
                !.heap[a] = Fresh,
                !.outstanding = @ + 1,
                !.peak = Max(@, Cardinality(Live(m.heap)) + 1)],
      ret |-> a] : a \in Addr \ Live(m.heap)}

\* void WebRtcVad_Free(VadInst*): free(); free(NULL) does nothing, freeing a
\* pointer that is not a live allocation is undefined.
WebRtcVad_Free(m, p) ==
    IF m.crashed THEN Skip(m) ELSE
    LET st == Status(m.heap, p)
        c  == Call("Free", p, st, 0)
    IN  CASE st = "null" -> {[m |-> Logged(m, c), ret |-> 0]}
          [] st = "live" -> {[m |-> [Logged(m, c) EXCEPT !.heap[p] = Dead,
                                                        !.outstanding = @ - 1],
                              ret |-> 0]}
          [] OTHER       -> {[m |-> Logged(m, c), ret |-> 0],
                             [m |-> Crash(m, c), ret |-> 0]}

\* int WebRtcVad_Init(VadInst*): -1 for NULL; 0 and a context initialized to
\* the default mode, or -1 and a context still uninitialized.
WebRtcVad_Init(m, p) ==
    IF m.crashed THEN Skip(m) ELSE
    LET st == Status(m.heap, p)
    IN  CASE st = "null" -> {[m |-> Logged(m, Call("Init", p, st, -1)), ret |-> -1]}
          [] st = "live" ->
                {[m |-> [Logged(m, Call("Init", p, st, 0)) EXCEPT
                            !.heap[p] = [live |-> TRUE, init |-> TRUE,
                                         mode |-> 0, adapted |-> FALSE]],
                  ret |-> 0],
                 [m |-> Logged(m, Call("Init", p, st, -1)), ret |-> -1]}
          [] OTHER ->
                {[m |-> Logged(m, Call("Init", p, st, r)), ret |-> r] : r \in {-1, 0}}
                \cup {[m |-> Crash(m, Call("Init", p, st, 0)), ret |-> 0]}

\* int WebRtcVad_set_mode(VadInst*, int): -1 for NULL, for an uninitialized
\* context and for a mode outside 0..3; otherwise the mode is set, 0.
WebRtcVad_set_mode(m, p, mode) ==
    IF m.crashed THEN Skip(m) ELSE
    LET st == Status(m.heap, p)
    IN  CASE st = "null" -> {[m |-> Logged(m, Call("set_mode", p, st, -1)), ret |-> -1]}
          [] st = "live" ->
                IF m.heap[p].init /\ mode \in 0..3
                THEN {[m |-> [Logged(m, Call("set_mode", p, st, 0)) EXCEPT
                                !.heap[p].mode = mode],
                       ret |-> 0]}
                ELSE {[m |-> Logged(m, Call("set_mode", p, st, -1)), ret |-> -1]}
          [] OTHER ->
                {[m |-> Logged(m, Call("set_mode", p, st, r)), ret |-> r] : r \in {-1, 0}}
                \cup {[m |-> Crash(m, Call("set_mode", p, st, 0)), ret |-> 0]}

\* The twelve supported geometries: {8000,16000,32000,48000} Hz x {10,20,30} ms.
ValidRates == {8000, 16000, 32000, 48000}

ValidDurationsMs == {10, 20, 30}

FrameLength(rate, ms) == (rate * ms) \div 1000

ValidRateAndFrameLength(rate, frameLength) ==
    /\ rate \in ValidRates
    /\ \E ms \in ValidDurationsMs : frameLength = FrameLength(rate, ms)

\* int WebRtcVad_Process(VadInst*, int fs, const int16_t* frame, size_t n):
\* -1 for NULL, for an uninitialized context and for an unsupported (fs, n);
\* otherwise it reads n samples of the buffer, updates the context's adaptive
\* state (adapted: it is no longer as WebRtcVad_Init left it) and returns 1
\* (speech) or 0.  The buffer holds len samples: reading
\* n > len of them is an out-of-bounds read.
WebRtcVad_Process(m, p, fs, len, n) ==
    IF m.crashed THEN Skip(m) ELSE
    LET st == Status(m.heap, p)
    IN  CASE st = "null" -> {[m |-> Logged(m, Call("Process", p, st, -1)), ret |-> -1]}
          [] st = "live" ->
                IF ~m.heap[p].init \/ ~ValidRateAndFrameLength(fs, n)
                THEN {[m |-> Logged(m, Call("Process", p, st, -1)), ret |-> -1]}
                ELSE {[m |-> [Logged(m, Call("Process", p, IF n > len THEN "oob" ELSE st, r))
                                EXCEPT !.heap[p].adapted = TRUE],
                       ret |-> r] : r \in {0, 1}}
                     \cup (IF n > len
                           THEN {[m |-> Crash(m, Call("Process", p, "oob", 0)), ret |-> 0]}
                           ELSE {})
          [] OTHER ->
                {[m |-> Logged(m, Call("Process", p, st, r)), ret |-> r] : r \in {-1, 0, 1}}
                \cup {[m |-> Crash(m, Call("Process", p, st, 0)), ret |-> 0]}

\* ------------------------------------------------------------- JNI calls
\* The record of a JNI call.  handle is the context the call addresses: the
\* jlong argument (handle build) or internalHandle at entry (singleton
\* build); wasReady tells whether that handle's instance was Ready at entry.
Last(op, h, mode, rate, size, len, ret, m) ==
    [op |-> op, handle |-> h, wasReady |-> h \in ready, mode |-> mode,
     rate |-> rate, size |-> size, len |-> len, ret |-> ret,
     calls |-> m.calls, peak |-> m.peak]

\* The native side after a JNI call.
Commit(m) ==
    /\ heap' = m.heap
    /\ outstanding' = m.outstanding
    /\ crashed' = m.crashed

Bool(b) == IF b THEN JNI_TRUE ELSE JNI_FALSE

TypeOK ==
    /\ variant \in Variants
    /\ heap \in [Addr -> [live : BOOLEAN, init : BOOLEAN, mode : 0..3, adapted : BOOLEAN]]
    /\ internalHandle \in Addr \cup {NULL}
    /\ outstanding \in 0..MaxAddr
    /\ crashed \in BOOLEAN
    /\ ready \subseteq Addr
    /\ destroyed \subseteq Addr
    /\ race.pc \in [Threads -> {"idle", "init_free", "init_create", "init_store", "init_init",
                                "destroy_free", "destroy_store", "setmode_call",
                                "isspeech_call"}]
    /\ race.tmp \in [Threads -> Addr \cup {NULL}]
    /\ race.overlapped \in BOOLEAN
    /\ race.seen \subseteq {"double_free", "leak", "use_after_free"}

Init ==
    /\ variant \in Variants
    /\ heap = [a \in Addr |-> Dead]
    /\ internalHandle = NULL
    /\ outstanding = 0
    /\ crashed = FALSE
    /\ ready = {}
    /\ destroyed = {}
    /\ race = RaceIdle
    /\ last = [op |-> "none", handle |-> NULL, wasReady |-> FALSE, mode |-> 0,
               rate |-> 0, size |-> 0, len |-> 0, ret |-> 0, calls |-> <<>>, peak |-> 0]

\* ---- singleton build: src/vad/src/main/jni/vad_jni.c

\* nativeInit without the release of the current context: the global is
\* overwritten while the old context is still allocated.
Singleton_nativeInit_NoFree ==
    /\ variant = "singleton" /\ ~crashed
    /\ \E c \in WebRtcVad_Create(Machine) :
       \E i \in WebRtcVad_Init(c.m, c.ret) :
          LET ok == i.ret >= 0 IN
          /\ Commit(i.m)
          /\ internalHandle' = c.ret
          /\ ready' = IF ok /\ ~i.m.crashed THEN {c.ret} ELSE {}
          /\ last' = Last("init", internalHandle, 0, 0, 0, 0, Bool(ok), i.m)
    /\ UNCHANGED <<variant, race, destroyed>>

\* jboolean nativeInit(): free the current context if there is one, create a
\* new one into internalHandle, return WebRtcVad_Init(internalHandle) >= 0.
Singleton_nativeInit ==
    /\ variant = "singleton" /\ ~crashed
    /\ \E f \in (IF internalHandle # NULL
                 THEN WebRtcVad_Free(Machine, internalHandle)
                 ELSE Skip(Machine)) :
       \E c \in WebRtcVad_Create(f.m) :
       \E i \in WebRtcVad_Init(c.m, c.ret) :
          LET ok == i.ret >= 0 IN
          /\ Commit(i.m)
          /\ internalHandle' = IF f.m.crashed THEN internalHandle ELSE c.ret
          /\ ready' = IF ok /\ ~i.m.crashed THEN {c.ret} ELSE {}
          /\ last' = Last("init", internalHandle, 0, 0, 0, 0, Bool(ok), i.m)
    /\ UNCHANGED <<variant, race, destroyed>>

\* nativeDestroy without the reset of the global: internalHandle keeps the
\* address of the freed context.
Singleton_nativeDestroy_NoClear ==
    /\ variant = "singleton" /\ ~crashed
    /\ IF internalHandle # NULL
       THEN \E f \in WebRtcVad_Free(Machine, internalHandle) :
               /\ Commit(f.m)
               /\ last' = Last("destroy", internalHandle, 0, 0, 0, 0, 0, f.m)
       ELSE /\ Commit(Machine)
            /\ last' = Last("destroy", internalHandle, 0, 0, 0, 0, 0, Machine)
    /\ ready' = {}
    /\ UNCHANGED <<variant, race, internalHandle, destroyed>>

\* void nativeDestroy(): free the current context if there is one and clear
\* internalHandle.
Singleton_nativeDestroy ==
    /\ variant = "singleton" /\ ~crashed
    /\ IF internalHandle # NULL
       THEN \E f \in WebRtcVad_Free(Machine, internalHandle) :
               /\ Commit(f.m)
               /\ internalHandle' = IF f.m.crashed THEN internalHandle ELSE NULL
               /\ last' = Last("destroy", internalHandle, 0, 0, 0, 0, 0, f.m)
       ELSE /\ Commit(Machine)
            /\ internalHandle' = internalHandle
            /\ last' = Last("destroy", internalHandle, 0, 0, 0, 0, 0, Machine)
    /\ ready' = {}
    /\ UNCHANGED <<variant, race, destroyed>>

\* nativeSetMode that gives the context up when the library refuses the
\* mode: it frees it and clears internalHandle.
Singleton_nativeSetMode_FreeOnFailure(jMode) ==
    /\ variant = "singleton" /\ ~crashed
    /\ IF internalHandle # NULL
       THEN \E s \in WebRtcVad_set_mode(Machine, internalHandle, jMode) :
            \E f \in (IF s.ret < 0 THEN WebRtcVad_Free(s.m, internalHandle) ELSE Skip(s.m)) :
               /\ Commit(f.m)
               /\ internalHandle' = IF s.ret < 0 THEN NULL ELSE internalHandle
               /\ last' = Last("setMode", internalHandle, jMode, 0, 0, 0, Bool(s.ret >= 0), f.m)
       ELSE /\ Commit(Machine)
            /\ internalHandle' = internalHandle
            /\ last' = Last("setMode", internalHandle, jMode, 0, 0, 0, JNI_FALSE, Machine)
    /\ UNCHANGED <<variant, race, ready, destroyed>>

\* jboolean nativeSetMode(jint): WebRtcVad_set_mode(internalHandle, jMode) >= 0
\* when internalHandle is not NULL, JNI_FALSE otherwise.
Singleton_nativeSetMode(jMode) ==
    /\ variant = "singleton" /\ ~crashed
    /\ IF internalHandle # NULL
       THEN \E s \in WebRtcVad_set_mode(Machine, internalHandle, jMode) :
               /\ Commit(s.m)
               /\ last' = Last("setMode", internalHandle, jMode, 0, 0, 0, Bool(s.ret >= 0), s.m)
       ELSE /\ Commit(Machine)
            /\ last' = Last("setMode", internalHandle, jMode, 0, 0, 0, JNI_FALSE, Machine)
    /\ UNCHANGED <<variant, race, internalHandle, ready, destroyed>>

\* jboolean nativeIsSpeech(jint, jint, jshortArray): WebRtcVad_Process on
\* internalHandle, whatever it is; JNI_TRUE when the result is > 0.
Singleton_nativeIsSpeech(jSampleRate, jFrameSize, len) ==
    /\ variant = "singleton" /\ ~crashed
    /\ \E r \in WebRtcVad_Process(Machine, internalHandle, jSampleRate, len, jFrameSize) :
          /\ Commit(r.m)
          /\ last' = Last("isSpeech", internalHandle, 0, jSampleRate, jFrameSize, len,
                          Bool(r.ret > 0), r.m)
    /\ UNCHANGED <<variant, race, internalHandle, ready, destroyed>>

\* ---- handle build: src/vad/src/main/jni/webrtc_vad/vad_jni.c

\* jlong nativeInit(): create; -1 if that fails; init; on failure free the
\* context and return -1; otherwise return the context's address.
Handle_nativeInit ==
    /\ variant = "handle" /\ ~crashed
    /\ \E c \in WebRtcVad_Create(Machine) :
          IF c.ret = NULL
          THEN /\ Commit(c.m)
               /\ ready' = ready
               /\ last' = Last("init", NULL, 0, 0, 0, 0, InitError, c.m)
          ELSE \E i \in WebRtcVad_Init(c.m, c.ret) :
                  IF i.ret # 0
                  THEN \E f \in WebRtcVad_Free(i.m, c.ret) :
                          /\ Commit(f.m)
                          /\ ready' = ready
                          /\ last' = Last("init", NULL, 0, 0, 0, 0, InitError, f.m)
                  ELSE /\ Commit(i.m)
                       /\ ready' = ready \cup {c.ret}
                       /\ last' = Last("init", NULL, 0, 0, 0, 0, c.ret, i.m)
    /\ UNCHANGED <<variant, race, internalHandle, destroyed>>

\* void nativeDestroy(jlong vad): WebRtcVad_Free((VadInst*) vad).
Handle_nativeDestroy(vad) ==
    /\ variant = "handle" /\ ~crashed
    /\ \E f \in WebRtcVad_Free(Machine, vad) :
          /\ Commit(f.m)
          /\ last' = Last("destroy", vad, 0, 0, 0, 0, 0, f.m)
    /\ ready' = ready \ {vad}
    /\ destroyed' = destroyed \cup (ready \cap {vad})
    /\ UNCHANGED <<variant, race, internalHandle>>

\* nativeSetMode with the mode kept in one place shared by every context: a
\* successful call changes the mode of all initialized contexts.
Handle_nativeSetMode_SharedMode(vad, jMode) ==
    /\ variant = "handle" /\ ~crashed
    /\ \E s \in WebRtcVad_set_mode(Machine, vad, jMode) :
          /\ Commit([s.m EXCEPT !.heap =
                        [a \in Addr |->
                            IF s.ret = 0 /\ s.m.heap[a].live /\ s.m.heap[a].init
                            THEN [s.m.heap[a] EXCEPT !.mode = jMode]
                            ELSE s.m.heap[a]]])
          /\ last' = Last("setMode", vad, jMode, 0, 0, 0, Bool(s.ret >= 0), s.m)
    /\ UNCHANGED <<variant, race, internalHandle, ready, destroyed>>

\* nativeSetMode returning the library's status as the boolean: 0 (success)
\* becomes false and -1 (failure) becomes true.
Handle_nativeSetMode_RawStatus(vad, jMode) ==
    /\ variant = "handle" /\ ~crashed
    /\ \E s \in WebRtcVad_set_mode(Machine, vad, jMode) :
          /\ Commit(s.m)
          /\ last' = Last("setMode", vad, jMode, 0, 0, 0, Bool(s.ret # 0), s.m)
    /\ UNCHANGED <<variant, race, internalHandle, ready, destroyed>>

\* jboolean nativeSetMode(jlong vad, jint): WebRtcVad_set_mode(vad, jMode) >= 0.
Handle_nativeSetMode(vad, jMode) ==
    /\ variant = "handle" /\ ~crashed
    /\ \E s \in WebRtcVad_set_mode(Machine, vad, jMode) :
          /\ Commit(s.m)
          /\ last' = Last("setMode", vad, jMode, 0, 0, 0, Bool(s.ret >= 0), s.m)
    /\ UNCHANGED <<variant, race, internalHandle, ready, destroyed>>

\* nativeIsSpeech with the test of the result written >= 0: a frame the
\* algorithm classified as non-speech is reported as speech.
Handle_nativeIsSpeech_NonNegative(vad, jSampleRate, jFrameSize, len) ==
    /\ variant = "handle" /\ ~crashed
    /\ \E r \in WebRtcVad_Process(Machine, vad, jSampleRate, len, jFrameSize) :
          /\ Commit(r.m)
          /\ last' = Last("isSpeech", vad, 0, jSampleRate, jFrameSize, len,
                          Bool(r.ret >= 0), r.m)
    /\ UNCHANGED <<variant, race, internalHandle, ready, destroyed>>

\* jboolean nativeIsSpeech(jlong vad, jint, jint, jshortArray):
\* WebRtcVad_Process on vad; JNI_TRUE when the result is > 0.
Handle_nativeIsSpeech(vad, jSampleRate, jFrameSize, len) ==
    /\ variant = "handle" /\ ~crashed
    /\ \E r \in WebRtcVad_Process(Machine, vad, jSampleRate, len, jFrameSize) :
          /\ Commit(r.m)
          /\ last' = Last("isSpeech", vad, 0, jSampleRate, jFrameSize, len,
                          Bool(r.ret > 0), r.m)
    /\ UNCHANGED <<variant, race, internalHandle, ready, destroyed>>

Next ==
    \/ Singleton_nativeInit
    \/ Singleton_nativeDestroy
    \/ \E jMode \in ModeInputs : Singleton_nativeSetMode(jMode)
    \/ \E f \in ClassifyInputs : Singleton_nativeIsSpeech(f[1], f[2], f[3])
    \/ Handle_nativeInit
    \/ \E vad \in HandleInputs : Handle_nativeDestroy(vad)
    \/ \E vad \in HandleInputs, jMode \in ModeInputs : Handle_nativeSetMode(vad, jMode)
    \/ \E vad \in HandleInputs, f \in ClassifyInputs :
          Handle_nativeIsSpeech(vad, f[1], f[2], f[3])

Spec == Init /\ [][Next]_vars

\* ---- singleton build, two unsynchronized threads: src/vad/src/main/jni/vad_jni.c
\* Each test, free, allocation and store of internalHandle is one step of the
\* thread making the call; race.tmp[t] is the pointer thread t holds in a
\* register.  Where the source names internalHandle a second time (the
\* argument of the call after the test, or after the store), the build may
\* load the global again or reuse the register: both are explored.

\* A live context nobody can free any more: it is neither in internalHandle
\* nor in a register of a thread inside a call.
Leaked(h, ih, tmp) ==
    \E a \in Live(h) : a # ih /\ \A t \in Threads : tmp[t] # a

\* What the native calls of one step show.
Faults(calls) ==
    {"double_free" : i \in {i \in 1..Len(calls) :
                               calls[i].fn = "Free" /\ calls[i].st = "dead"}}
    \cup
    {"use_after_free" : i \in {i \in 1..Len(calls) :
                                  calls[i].fn = "Process" /\ calls[i].st = "dead"}}

\* The pointer a second mention of internalHandle evaluates to.
Reloaded(t) == {race.tmp[t], internalHandle}

\* One step of thread t: its next label, its register, the native side and
\* the global after the step.
RaceStep(t, pc, tmp, m, ih) ==
    LET tmps == [race.tmp EXCEPT ![t] = tmp] IN
    /\ Commit(m)
    /\ internalHandle' = ih
    /\ race' = [pc |-> [race.pc EXCEPT ![t] = pc],
                tmp |-> tmps,
                overlapped |-> race.overlapped
                               \/ \E u \in Threads \ {t} : race.pc[u] # "idle",
                seen |-> race.seen \cup Faults(m.calls)
                         \cup (IF Leaked(m.heap, ih, tmps) THEN {"leak"} ELSE {})]
    /\ UNCHANGED <<variant, ready, destroyed, last>>

At(t, pc) == ~crashed /\ race.pc[t] = pc

\* nativeInit, line 10: if (internalHandle)
Race_InitTest(t) ==
    /\ At(t, "idle")
    /\ RaceStep(t, IF internalHandle # NULL THEN "init_free" ELSE "init_create",
                internalHandle, Machine, internalHandle)

\* nativeInit, line 11: WebRtcVad_Free(internalHandle)
Race_InitFree(t) ==
    /\ At(t, "init_free")
    /\ \E p \in Reloaded(t) : \E f \in WebRtcVad_Free(Machine, p) :
          RaceStep(t, "init_create", NULL, f.m, internalHandle)

\* nativeInit, line 14, right-hand side: WebRtcVad_Create()
Race_InitCreate(t) ==
    /\ At(t, "init_create")
    /\ \E c \in WebRtcVad_Create(Machine) :
          RaceStep(t, "init_store", c.ret, c.m, internalHandle)

\* nativeInit, line 14, the store: internalHandle = ...
Race_InitStore(t) ==
    /\ At(t, "init_store")
    /\ RaceStep(t, "init_init", race.tmp[t], Machine, race.tmp[t])

\* nativeInit, line 15: return WebRtcVad_Init(internalHandle) >= 0
Race_InitInit(t) ==
    /\ At(t, "init_init")
    /\ \E p \in Reloaded(t) : \E i \in WebRtcVad_Init(Machine, p) :
          RaceStep(t, "idle", NULL, i.m, internalHandle)

\* nativeDestroy, line 20: if (internalHandle)
Race_DestroyTest(t) ==
    /\ At(t, "idle")
    /\ RaceStep(t, IF internalHandle # NULL THEN "destroy_free" ELSE "idle",
                internalHandle, Machine, internalHandle)

\* nativeDestroy, line 21: WebRtcVad_Free(internalHandle)
Race_DestroyFree(t) ==
    /\ At(t, "destroy_free")
    /\ \E p \in Reloaded(t) : \E f \in WebRtcVad_Free(Machine, p) :
          RaceStep(t, "destroy_store", NULL, f.m, internalHandle)

\* nativeDestroy without its store: the global keeps the freed address.
Race_DestroyStore_NoClear(t) ==
    /\ At(t, "destroy_store")
    /\ RaceStep(t, "idle", NULL, Machine, internalHandle)

\* nativeDestroy, line 22: internalHandle = NULL
Race_DestroyStore(t) ==
    /\ At(t, "destroy_store")
    /\ RaceStep(t, "idle", NULL, Machine, NULL)

\* nativeSetMode, line 28: if (internalHandle != NULL)
Race_SetModeTest(t) ==
    /\ At(t, "idle")
    /\ RaceStep(t, IF internalHandle # NULL THEN "setmode_call" ELSE "idle",
                internalHandle, Machine, internalHandle)

\* nativeSetMode, line 29: return WebRtcVad_set_mode(internalHandle, jMode) >= 0
Race_SetModeCall(t) ==
    /\ At(t, "setmode_call")
    /\ \E p \in Reloaded(t), jMode \in ModeInputs :
       \E s \in WebRtcVad_set_mode(Machine, p, jMode) :
          RaceStep(t, "idle", NULL, s.m, internalHandle)

\* nativeIsSpeech, lines 41-45: the arguments of the call are evaluated,
\* internalHandle among them.
Race_IsSpeechLoad(t) ==
    /\ At(t, "idle")
    /\ RaceStep(t, "isspeech_call", internalHandle, Machine, internalHandle)

\* nativeIsSpeech, lines 45-56: WebRtcVad_Process on the loaded pointer.
Race_IsSpeechCall(t) ==
    /\ At(t, "isspeech_call")
    /\ \E f \in ClassifyInputs :
       \E r \in WebRtcVad_Process(Machine, race.tmp[t], f[1], f[3], f[2]) :
          RaceStep(t, "idle", NULL, r.m, internalHandle)

InitRace == Init /\ variant = "singleton"

NextRace ==
    \E t \in Threads :
        \/ Race_InitTest(t)
        \/ Race_InitFree(t)
        \/ Race_InitCreate(t)
        \/ Race_InitStore(t)
        \/ Race_InitInit(t)
        \/ Race_DestroyTest(t)
        \/ Race_DestroyFree(t)
        \/ Race_DestroyStore(t)
        \/ Race_SetModeTest(t)
        \/ Race_SetModeCall(t)
        \/ Race_IsSpeechLoad(t)
        \/ Race_IsSpeechCall(t)

SpecRace == InitRace /\ [][NextRace]_vars

\* ------------------------------------------------------------ the claims
\* The native calls the last JNI call made.
InvokedIn(calls, fn) == \E i \in 1..Len(calls) : calls[i].fn = fn

Invoked(fn) == InvokedIn(last.calls, fn)

\* The value nativeIsSpeech returns for a frame the algorithm classified as
\* non-speech (result 0).
NonSpeechValue == Bool(0 > 0)

\* C1: a classify call on a handle that is not Ready (never created, or
\* already destroyed) fails and does not invoke the native algorithm.
C1_NotReadyClassifyRejected ==
    (last.op = "isSpeech" /\ ~last.wasReady /\ ~crashed)
        => (~Invoked("Process") /\ last.ret # JNI_TRUE)

\* C2: a classify call on a Ready handle whose frame holds a number of
\* samples different from the frame length passed with it never invokes
\* WebRtcVad_Process.
C2_FrameLengthMismatchRejected ==
    (last.op = "isSpeech" /\ last.wasReady /\ last.len # last.size)
        => ~Invoked("Process")

\* C3: whenever no successfully created instance is left undestroyed, every
\* allocated context has been freed (allocations = frees), and neither create
\* nor the destroy of a Ready instance frees a context that is not live.
C3_AllocationsMatchFrees ==
    ~crashed =>
        /\ ready = {} => outstanding = 0
        /\ (last.op = "init" \/ (last.op = "destroy" /\ last.wasReady))
              => \A i \in 1..Len(last.calls) :
                    last.calls[i].fn = "Free" => last.calls[i].st \in {"live", "null"}

\* A create that returned its failure value.
CreateFailed(v, l) ==
    /\ l.op = "init"
    /\ l.ret = (IF v = "singleton" THEN JNI_FALSE ELSE InitError)

\* C4: a failed create leaves the native heap, the addressable instance and
\* the set of Ready instances exactly as they were.
C4_FailedCreateChangesNothing ==
    [][(CreateFailed(variant, last') /\ ~crashed')
          => (heap' = heap /\ internalHandle' = internalHandle /\ ready' = ready)]_vars

\* C5: in the singleton build at most one native context is live, in every
\* state and at every point inside a call: a create over a live instance
\* frees it before the new context is allocated.
C5_AtMostOneLiveContext ==
    variant = "singleton" =>
        /\ Cardinality(Live(heap)) <= 1
        /\ last.peak <= 1
        /\ (last.op = "init" /\ last.handle # NULL) =>
              \A i \in 1..Len(last.calls) :
                 last.calls[i].fn = "Create" =>
                    \E j \in 1..(i - 1) :
                       last.calls[j] = Call("Free", last.handle, "live", 0)

\* A create was issued over a live instance and produced a new Ready one.
C5_Witness ==
    /\ variant = "singleton"
    /\ last.op = "init"
    /\ last.handle # NULL
    /\ last.wasReady
    /\ last.ret = JNI_TRUE

\* C6: setMode on a handle that is not Ready fails, does not invoke
\* WebRtcVad_set_mode and leaves the mode of every context unchanged.
C6_NotReadySetModeRejected ==
    [][(last'.op = "setMode" /\ ~last'.wasReady /\ ~crashed')
          => /\ last'.ret = JNI_FALSE
             /\ ~InvokedIn(last'.calls, "set_mode")
             /\ \A a \in Addr : heap'[a].mode = heap[a].mode]_vars

\* C7: once destroy has been applied to a handle, no classify or setMode
\* through that handle succeeds or reaches a live native context.
C7_DestroyedIsTerminal ==
    (last.op \in {"setMode", "isSpeech"} /\ last.handle \in destroyed /\ ~crashed)
        => /\ last.ret = JNI_FALSE
           /\ \A i \in 1..Len(last.calls) : last.calls[i].st # "live"

\* C8: in the handle build, setMode, classify and destroy on a live handle A
\* leave every other live instance B as it was: its context (liveness,
\* initialization, mode, adaptive state) and whether it is Ready.
C8_OtherInstancesUntouched ==
    [][(/\ variant = "handle"
        /\ last'.op \in {"setMode", "isSpeech", "destroy"}
        /\ last'.handle \in Live(heap))
          => \A b \in Live(heap) \ {last'.handle} :
                /\ heap'[b] = heap[b]
                /\ (b \in ready') = (b \in ready)]_vars

\* Two instances are live and the mode of one of them has just been changed
\* to a mode the other does not have.
C8_Witness ==
    /\ variant = "handle"
    /\ last.op = "setMode"
    /\ last.ret = JNI_TRUE
    /\ last.handle \in Live(heap)
    /\ \E b \in Live(heap) \ {last.handle} :
          /\ b \in ready
          /\ heap[b].mode # heap[last.handle].mode

\* C9: a classify call on a Ready handle whose (sampleRate,
\* frameLengthSamples) pair is not one of the twelve supported combinations
\* never invokes WebRtcVad_Process.
C9_GeometryValidatedBeforeClassify ==
    (/\ last.op = "isSpeech"
     /\ last.wasReady
     /\ ~ValidRateAndFrameLength(last.rate, last.size))
        => ~Invoked("Process")

\* A classify call that failed: the native algorithm reported an error, or a
\* precondition of classify did not hold.
ClassifyFailed ==
    /\ last.op = "isSpeech"
    /\ \/ \E i \in 1..Len(last.calls) :
             last.calls[i].fn = "Process" /\ last.calls[i].res < 0
       \/ ~last.wasReady
       \/ ~ValidRateAndFrameLength(last.rate, last.size)
       \/ last.len # last.size

\* C10: a failed classify never returns the value a successfully classified
\* non-speech frame returns.
C10_FailureDistinctFromNonSpeech ==
    (ClassifyFailed /\ ~crashed) => last.ret # NonSpeechValue

\* C11: destroy of an instance that was destroyed before and is not Ready is
\* a no-op: it invokes no native free and changes neither the heap, nor the
\* global, nor the Ready instances, and the process survives it.
C11_RepeatedDestroyIsNoOp ==
    [][(/\ last'.op = "destroy"
        /\ last'.handle \in destroyed
        /\ last'.handle \notin ready)
          => /\ ~InvokedIn(last'.calls, "Free")
             /\ heap' = heap
             /\ internalHandle' = internalHandle
             /\ ready' = ready
             /\ ~crashed']_vars

\* C13: setMode on a Ready handle with a mode outside 0..3 fails and leaves
\* the instance's mode unchanged; with a mode in 0..3 it succeeds and the
\* instance's mode becomes that value; either way the instance stays Ready
\* and its context stays live and initialized.
C13_SetModeOnReady ==
    [][(last'.op = "setMode" /\ last'.wasReady)
          => LET h == last'.handle IN
             /\ ~crashed'
             /\ h \in ready'
             /\ heap'[h].live /\ heap'[h].init
             /\ IF last'.mode \in 0..3
                THEN last'.ret = JNI_TRUE /\ heap'[h].mode = last'.mode
                ELSE last'.ret = JNI_FALSE /\ heap'[h].mode = heap[h].mode]_vars

\* A Ready instance in mode 3 has just refused mode 4.
C13_Witness ==
    /\ last.op = "setMode"
    /\ last.wasReady
    /\ last.mode = 4
    /\ last.ret = JNI_FALSE
    /\ heap[last.handle].mode = 3

\* C14: in the singleton build internalHandle is NULL or the address of a
\* live context between any two calls, and no call passes a freed or
\* fabricated pointer to the library.
C14_GlobalNeverDangles ==
    variant = "singleton" =>
        /\ internalHandle \in {NULL} \cup Live(heap)
        /\ \A i \in 1..Len(last.calls) : last.calls[i].st \notin {"dead", "wild"}
        /\ last.handle \in {NULL} \cup Addr

\* The context was destroyed and the next classify ran on the NULL global.
C14_Witness ==
    /\ variant = "singleton"
    /\ last.op = "isSpeech"
    /\ last.handle = NULL
    /\ internalHandle = NULL
    /\ Invoked("Process")
    /\ \E a \in Addr : heap[a] = Dead

\* C15: nativeIsSpeech makes exactly one WebRtcVad_Process call and returns
\* JNI_TRUE exactly when that call's result is > 0, JNI_FALSE when it is 0
\* or negative, whatever calls came before.
C15_SpeechIffPositive ==
    (last.op = "isSpeech" /\ ~crashed) =>
        /\ Len(last.calls) = 1
        /\ last.calls[1].fn = "Process"
        /\ last.ret = (IF last.calls[1].res > 0 THEN JNI_TRUE ELSE JNI_FALSE)

\* A context that has processed frames before reports an error (-1), which
\* is returned as JNI_FALSE.
C15_Witness ==
    /\ last.op = "isSpeech"
    /\ ~crashed
    /\ last.handle \in Live(heap)
    /\ heap[last.handle].adapted
    /\ last.calls[1].res < 0
    /\ last.ret = JNI_FALSE

\* C16: nativeIsSpeech and nativeSetMode neither allocate nor free: the set
\* of live contexts and internalHandle are the same after the call, and the
\* call invokes neither WebRtcVad_Create nor WebRtcVad_Free.
C16_ClassifyAndSetModeKeepInstances ==
    [][(last'.op \in {"setMode", "isSpeech"})
          => /\ Live(heap') = Live(heap)
             /\ internalHandle' = internalHandle
             /\ outstanding' = outstanding
             /\ ~InvokedIn(last'.calls, "Create")
             /\ ~InvokedIn(last'.calls, "Free")]_vars

\* The library has just refused a mode for the singleton's live context.
C16_Witness ==
    /\ variant = "singleton"
    /\ last.op = "setMode"
    /\ last.ret = JNI_FALSE
    /\ Invoked("set_mode")
    /\ internalHandle \in Live(heap)

\* C12: with two unsynchronized threads in the singleton build, a context is
\* freed twice, leaked or passed to WebRtcVad_Process after being freed only
\* in behaviours where a thread ran while another was inside a call; such
\* behaviours exist (C12_Witness).
C12_FaultsOnlyByRace ==
    race.seen # {} => race.overlapped

\* One behaviour of the two threads has shown all three: a double free, a
\* leaked context and a freed context passed to WebRtcVad_Process.
C12_Witness ==
    /\ race.overlapped
    /\ race.seen = {"double_free", "leak", "use_after_free"}

====
